---- MODULE Spec2Model ----
(***************************************************************************)
(* The upgrade evaluation pipeline of workers/rust-worker/src/lib.rs:      *)
(* request validation, compatibility scoring, change synthesis and risk    *)
(* assessment (UpgradeWorker::process_upgrade and its helpers).            *)
(*                                                                         *)
(* A Rust String is a sequence of characters.  An ASCII character is the   *)
(* one-character string holding it; a character outside ASCII is written   *)
(* by its code point ("U+00E9").  The opaque `metadata` maps of the        *)
(* request and of a Change are never read by the code and are left out.    *)
(***************************************************************************)
EXTENDS Integers, Sequences, FiniteSets, TLC

VARIABLES
    pc,                  \* position of the running call
    request,             \* the UpgradeRequest of process_upgrade / assess_risk
    changes,             \* the Vec<Change> of process_upgrade / assess_risk
    compatibility_score, \* the f64 of process_upgrade
    risk_level,          \* the four locals of assess_risk
    breaking_changes,
    security_issues,
    performance_impact,
    result,              \* what process_upgrade returned
    args,                \* the arguments of a direct call of a helper
    ret                  \* what the helper returned

vars == <<pc, request, changes, compatibility_score, risk_level,
          breaking_changes, security_issues, performance_impact,
          result, args, ret>>

----------------------------------------------------------------------------
(* Characters *)

DigitChars == <<"0", "1", "2", "3", "4", "5", "6", "7", "8", "9">>

AsciiDigits == {DigitChars[i] : i \in 1..10}

AsciiLetters ==
    {"a", "b", "c", "d", "e", "f", "g", "h", "i", "j", "k", "l", "m",
     "n", "o", "p", "q", "r", "s", "t", "u", "v", "w", "x", "y", "z",
     "A", "B", "C", "D", "E", "F", "G", "H", "I", "J", "K", "L", "M",
     "N", "O", "P", "Q", "R", "S", "T", "U", "V", "W", "X", "Y", "Z"}

\* U+00E9 (e with acute) has the Unicode property Alphabetic.
UnicodeLetters == {"U+00E9"}

\* U+0663 (Arabic-Indic digit three) has the Unicode category Nd.
UnicodeNumerics == {"U+0663"}

\* char::is_alphanumeric: is_alphabetic() || is_numeric(), both Unicode-wide.
is_alphanumeric(c) ==
    c \in AsciiLetters \cup AsciiDigits \cup UnicodeLetters \cup UnicodeNumerics

\* char::to_digit(10): the ASCII digits only.
to_digit(c) == CHOOSE d \in 0..9 : DigitChars[d + 1] = c

----------------------------------------------------------------------------
(* Strings *)

\* str::split('.'): the pieces between the dots; never an empty list.
RECURSIVE split(_)
split(s) ==
    IF s = <<>> THEN << <<>> >>
    ELSE LET rest == split(Tail(s)) IN
         IF Head(s) = "." THEN << <<>> >> \o rest
         ELSE << <<Head(s)>> \o Head(rest) >> \o Tail(rest)

\* str::contains(&str)
contains(hay, needle) ==
    \E i \in 0..(Len(hay) - Len(needle)) :
        SubSeq(hay, i + 1, i + Len(needle)) = needle

----------------------------------------------------------------------------
(* Version model *)

is_valid_version(version) ==
    LET parts == split(version) IN
    IF Len(parts) < 2 \/ Len(parts) > 3 THEN FALSE
    ELSE \A i \in 1..Len(parts) :
            /\ parts[i] # <<>>
            /\ \A j \in 1..Len(parts[i]) :
                  is_alphanumeric(parts[i][j]) \/ parts[i][j] = "-"

\* u32 holds 32 bits; a value is kept as two 16-bit halves <<hi, lo>>.
U32Half == 65536

U32Zero == <<0, 0>>

\* Result<T, E>
Ok(v) == [ok |-> TRUE, value |-> v]

Err(e) == [ok |-> FALSE, error |-> e]

\* One step of str::parse::<u32>: v * 10 + d with checked_mul and
\* checked_add; PosOverflow when the result does not fit in 32 bits.
u32_push_digit(v, d) ==
    LET lo == v[2] * 10 + d
        hi == v[1] * 10 + (lo \div U32Half)
    IN  IF hi >= U32Half THEN Err("PosOverflow") ELSE Ok(<<hi, lo % U32Half>>)

RECURSIVE u32_from_digits(_, _)
u32_from_digits(v, digits) ==
    IF digits = <<>> THEN Ok(v)
    ELSE IF Head(digits) \notin AsciiDigits THEN Err("InvalidDigit")
    ELSE LET next == u32_push_digit(v, to_digit(Head(digits))) IN
         IF ~ next.ok THEN next
         ELSE u32_from_digits(next.value, Tail(digits))

\* str::parse::<u32>(): Err on the empty string, on a lone sign, on any
\* character that is no ASCII digit (a leading "+" is skipped, a "-" is no
\* digit of an unsigned type) and on a value above u32::MAX.
parse_u32(s) ==
    IF s = <<>> THEN Err("Empty")
    ELSE IF Len(s) = 1 /\ Head(s) \in {"+", "-"} THEN Err("InvalidDigit")
    ELSE IF Head(s) = "+" THEN u32_from_digits(U32Zero, Tail(s))
    ELSE u32_from_digits(U32Zero, s)

\* Result::unwrap_or(0)
unwrap_or_0(r) == IF r.ok THEN r.value ELSE U32Zero

u32_gt(a, b) == a[1] > b[1] \/ (a[1] = b[1] /\ a[2] > b[2])

is_major_version_jump_NotLess(current, target) ==
    LET current_major == unwrap_or_0(parse_u32(split(current)[1]))
        target_major == unwrap_or_0(parse_u32(split(target)[1]))
    IN  ~ u32_gt(current_major, target_major)

is_major_version_jump(current, target) ==
    LET current_parts == split(current)
        target_parts == split(target)
    IN  IF current_parts = <<>> \/ target_parts = <<>> THEN FALSE
        ELSE LET current_major == unwrap_or_0(parse_u32(current_parts[1]))
                 target_major == unwrap_or_0(parse_u32(target_parts[1]))
             IN  u32_gt(target_major, current_major)

----------------------------------------------------------------------------
(* f64: IEEE 754 binary64, for the finite values >= 0 the scorer meets.    *)
(* A normal value is sig * 2^(exp - 52): sig is the 53-bit significand as  *)
(* 14 hexadecimal digits, most significant first (1.999999999999a p-1 is   *)
(* exp = -1, sig = 1 9 9 9 9 9 9 9 9 9 9 9 9 a).  Products of the scorer's  *)
(* constants stay normal, so subnormals, infinities and NaN do not arise.  *)

HexDigits == 14

F64(exp, sig) == [exp |-> exp, sig |-> sig]

\* 0.0: biased exponent 0 and a zero significand.
F64Zero == F64(0 - 1023, [i \in 1..HexDigits |-> 0])

F64One == F64(0, <<1, 0, 0, 0, 0, 0, 0, 0, 0, 0, 0, 0, 0, 0>>)

RECURSIVE SumOver(_, _, _)
SumOver(f, lo, hi) == IF lo > hi THEN 0 ELSE f[lo] + SumOver(f, lo + 1, hi)

\* Digit k (0 = least significant) of a significand.
HexAt(sig, k) == sig[HexDigits - k]

\* The exact product of two significands: 28 hexadecimal digits, the least
\* significant first.
RECURSIVE CarryHex(_, _, _)
CarryHex(cols, k, carry) ==
    IF k > 2 * HexDigits - 1 THEN <<>>
    ELSE LET t == (IF k \in DOMAIN cols THEN cols[k] ELSE 0) + carry
         IN  <<t % 16>> \o CarryHex(cols, k + 1, t \div 16)

SigProduct(a, b) ==
    LET Max(x, y) == IF x > y THEN x ELSE y
        Min(x, y) == IF x < y THEN x ELSE y
        cols == [k \in 0..(2 * HexDigits - 2) |->
                   LET lo == Max(0, k - (HexDigits - 1))
                       hi == Min(k, HexDigits - 1)
                   IN  SumOver([i \in lo..hi |-> HexAt(a, i) * HexAt(b, k - i)],
                               lo, hi)]
    IN  CarryHex(cols, 0, 0)

Pow2(n) == CASE n = 0 -> 1 [] n = 1 -> 2 [] n = 2 -> 4 [] n = 3 -> 8

\* Bit i (0 = least significant) of a number given by its hexadecimal
\* digits, least significant first; 0 beyond its length.
BitAt(digits, i) ==
    IF i < 0 \/ i \div 4 >= Len(digits) THEN 0
    ELSE (digits[(i \div 4) + 1] \div Pow2(i % 4)) % 2

\* sig + 1, as HexDigits + 1 digits, most significant first.
RECURSIVE IncHex(_, _)
IncHex(sig, k) ==
    IF k = 0 THEN <<1>>
    ELSE IF sig[k] = 15 THEN IncHex(sig, k - 1) \o <<0>>
    ELSE <<0>> \o SubSeq(sig, 1, k - 1) \o <<sig[k] + 1>>

\* a * b, rounded to nearest, ties to even (the default rounding of f64).
F64Mul(a, b) ==
    LET prod == SigProduct(a.sig, b.sig)
        \* both significands are in [2^52, 2^53): the product's top bit is
        \* bit 104 or bit 105
        top == IF BitAt(prod, 105) = 1 THEN 105 ELSE 104
        shift == top - 52
        kept == [j \in 1..HexDigits |->
                   LET k == HexDigits - j IN
                   SumOver([b2 \in 0..3 |->
                              BitAt(prod, shift + 4 * k + b2) * Pow2(b2)], 0, 3)]
        guard == BitAt(prod, shift - 1)
        sticky == \E i \in 0..(shift - 2) : BitAt(prod, i) = 1
        odd == kept[HexDigits] % 2 = 1
        up == guard = 1 /\ (sticky \/ odd)
        exp == a.exp + b.exp + (top - 104)
        inc == IncHex(kept, HexDigits)
    IN  IF ~ up THEN F64(exp, kept)
        ELSE IF inc[2] = 2 \* the significand rounded up to 2^53
             THEN F64(exp + 1, <<1>> \o [i \in 1..(HexDigits - 1) |-> 0])
        ELSE F64(exp, Tail(inc))

\* a < b on values >= 0.
RECURSIVE SeqLess(_, _)
SeqLess(a, b) ==
    IF a = <<>> THEN FALSE
    ELSE Head(a) < Head(b) \/ (Head(a) = Head(b) /\ SeqLess(Tail(a), Tail(b)))

F64Less(a, b) == a.exp < b.exp \/ (a.exp = b.exp /\ SeqLess(a.sig, b.sig))

F64Le(a, b) == ~ F64Less(b, a)

\* f64::min
F64Min(a, b) == IF F64Less(b, a) THEN b ELSE a

----------------------------------------------------------------------------
(* Vulnerability oracle *)

VULNERABLE == <<"v", "u", "l", "n", "e", "r", "a", "b", "l", "e">>

ZERO_VERSION == <<"0", ".", "0", ".", "0">>

has_known_vulnerabilities(package_name, version) ==
    contains(package_name, VULNERABLE) \/ contains(version, ZERO_VERSION)

----------------------------------------------------------------------------
(* Compatibility scorer *)

NPM == <<"n", "p", "m">>

CARGO == <<"c", "a", "r", "g", "o">>

PIP == <<"p", "i", "p">>

GO == <<"g", "o">>

\* The f64 nearest to each decimal literal of assess_compatibility.
F64_0_8 == F64(0 - 1, <<1, 9, 9, 9, 9, 9, 9, 9, 9, 9, 9, 9, 9, 10>>)

F64_0_9 == F64(0 - 1, <<1, 12, 12, 12, 12, 12, 12, 12, 12, 12, 12, 12, 12, 13>>)

F64_0_85 == F64(0 - 1, <<1, 11, 3, 3, 3, 3, 3, 3, 3, 3, 3, 3, 3, 3>>)

F64_0_95 == F64(0 - 1, <<1, 14, 6, 6, 6, 6, 6, 6, 6, 6, 6, 6, 6, 6>>)

F64_0_7 == F64(0 - 1, <<1, 6, 6, 6, 6, 6, 6, 6, 6, 6, 6, 6, 6, 6>>)

base_score == F64_0_8

ecosystem_multiplier_DefaultOne(ecosystem) ==
    CASE ecosystem = CARGO -> F64_0_9
      [] ecosystem = PIP -> F64_0_85
      [] ecosystem = GO -> F64_0_95
      [] OTHER -> F64One

ecosystem_multiplier(ecosystem) ==
    CASE ecosystem = NPM -> F64One
      [] ecosystem = CARGO -> F64_0_9
      [] ecosystem = PIP -> F64_0_85
      [] ecosystem = GO -> F64_0_95
      [] OTHER -> F64_0_7

assess_compatibility(req) ==
    LET final_score == F64Mul(base_score, ecosystem_multiplier(req.ecosystem))
    IN  Ok(F64Min(final_score, F64One))

----------------------------------------------------------------------------
(* Change synthesizer *)

PACKAGE_JSON == <<"p", "a", "c", "k", "a", "g", "e", ".", "j", "s", "o", "n">>

CARGO_TOML == <<"C", "a", "r", "g", "o", ".", "t", "o", "m", "l">>

\* format!(r#"{{"dependencies": {{"{}": "{}"}}}}"#, package_name, target_version)
npm_content(package_name, target_version) ==
    <<"{", "\"", "d", "e", "p", "e", "n", "d", "e", "n", "c", "i", "e", "s",
      "\"", ":", " ", "{", "\"">>
    \o package_name \o <<"\"", ":", " ", "\"">> \o target_version
    \o <<"\"", "}", "}">>

\* format!(r#"[dependencies]{} = "{}""#, package_name, target_version)
cargo_content(package_name, target_version) ==
    <<"[", "d", "e", "p", "e", "n", "d", "e", "n", "c", "i", "e", "s", "]">>
    \o package_name \o <<" ", "=", " ", "\"">> \o target_version \o <<"\"">>

Change(file_path, change_type, content) ==
    [file_path |-> file_path, change_type |-> change_type, content |-> content]

generate_changes_PipToo(req) ==
    Ok((IF req.ecosystem \in {NPM, PIP}
        THEN <<Change(PACKAGE_JSON, "Modify",
                      npm_content(req.package_name, req.target_version))>>
        ELSE <<>>)
       \o
       (IF req.ecosystem = CARGO
        THEN <<Change(CARGO_TOML, "Modify",
                      cargo_content(req.package_name, req.target_version))>>
        ELSE <<>>))

generate_changes(req) ==
    LET changes0 == <<>>
        changes1 ==
            IF req.ecosystem = NPM
            THEN Append(changes0,
                        Change(PACKAGE_JSON, "Modify",
                               npm_content(req.package_name, req.target_version)))
            ELSE changes0
        changes2 ==
            IF req.ecosystem = CARGO
            THEN Append(changes1,
                        Change(CARGO_TOML, "Modify",
                               cargo_content(req.package_name, req.target_version)))
            ELSE changes1
    IN  Ok(changes2)

----------------------------------------------------------------------------
(* Request validation *)

UpgradeError(message, error_type) ==
    [message |-> message, error_type |-> error_type]

REPOSITORY_EMPTY ==
    <<"R", "e", "p", "o", "s", "i", "t", "o", "r", "y", " ", "c", "a", "n",
      "n", "o", "t", " ", "b", "e", " ", "e", "m", "p", "t", "y">>

PACKAGE_NAME_EMPTY ==
    <<"P", "a", "c", "k", "a", "g", "e", " ", "n", "a", "m", "e", " ", "c",
      "a", "n", "n", "o", "t", " ", "b", "e", " ", "e", "m", "p", "t", "y">>

INVALID_CURRENT ==
    <<"I", "n", "v", "a", "l", "i", "d", " ", "c", "u", "r", "r", "e", "n",
      "t", " ", "v", "e", "r", "s", "i", "o", "n", ":", " ">>

INVALID_TARGET ==
    <<"I", "n", "v", "a", "l", "i", "d", " ", "t", "a", "r", "g", "e", "t",
      " ", "v", "e", "r", "s", "i", "o", "n", ":", " ">>

validate_request_VersionsFirst(req) ==
    IF ~ is_valid_version(req.current_version)
    THEN Err(UpgradeError(INVALID_CURRENT \o req.current_version, "Validation"))
    ELSE IF ~ is_valid_version(req.target_version)
    THEN Err(UpgradeError(INVALID_TARGET \o req.target_version, "Validation"))
    ELSE IF req.repository = <<>>
    THEN Err(UpgradeError(REPOSITORY_EMPTY, "Validation"))
    ELSE IF req.package_name = <<>>
    THEN Err(UpgradeError(PACKAGE_NAME_EMPTY, "Validation"))
    ELSE Ok(<<>>)

validate_request(req) ==
    IF req.repository = <<>>
    THEN Err(UpgradeError(REPOSITORY_EMPTY, "Validation"))
    ELSE IF req.package_name = <<>>
    THEN Err(UpgradeError(PACKAGE_NAME_EMPTY, "Validation"))
    ELSE IF ~ is_valid_version(req.current_version)
    THEN Err(UpgradeError(INVALID_CURRENT \o req.current_version, "Validation"))
    ELSE IF ~ is_valid_version(req.target_version)
    THEN Err(UpgradeError(INVALID_TARGET \o req.target_version, "Validation"))
    ELSE Ok(<<>>)

----------------------------------------------------------------------------
(* Risk assessor *)

SECURITY_FINDING ==
    <<"K", "n", "o", "w", "n", " ", "s", "e", "c", "u", "r", "i", "t", "y",
      " ", "v", "u", "l", "n", "e", "r", "a", "b", "i", "l", "i", "t", "y",
      " ", "d", "e", "t", "e", "c", "t", "e", "d">>

RiskAssessment(level, breaking, issues, impact) ==
    [risk_level |-> level, breaking_changes |-> breaking,
     security_issues |-> issues, performance_impact |-> impact]

\* The four `let mut` locals at the top of assess_risk.
risk_locals_init == RiskAssessment("Low", FALSE, <<>>, "None")

\* // Assess version jump
assess_version_jump_Medium(r, req) ==
    IF is_major_version_jump(req.current_version, req.target_version)
    THEN [r EXCEPT !.risk_level = "Medium", !.breaking_changes = TRUE]
    ELSE r

assess_version_jump(r, req) ==
    IF is_major_version_jump(req.current_version, req.target_version)
    THEN [r EXCEPT !.risk_level = "High", !.breaking_changes = TRUE]
    ELSE r

\* // Check for known security issues
check_security_KeepsLevel(r, req) ==
    IF has_known_vulnerabilities(req.package_name, req.target_version)
    THEN [r EXCEPT !.security_issues = Append(@, SECURITY_FINDING)]
    ELSE r

check_security(r, req) ==
    IF has_known_vulnerabilities(req.package_name, req.target_version)
    THEN [r EXCEPT !.security_issues = Append(@, SECURITY_FINDING),
                   !.risk_level = "Critical"]
    ELSE r

PerformanceThreshold == 5

\* // Assess performance impact
assess_performance_AtLeast(r, chgs) ==
    IF Len(chgs) >= PerformanceThreshold
    THEN [r EXCEPT !.performance_impact = "Medium"]
    ELSE r

assess_performance(r, chgs) ==
    IF Len(chgs) > PerformanceThreshold
    THEN [r EXCEPT !.performance_impact = "Medium"]
    ELSE r

assess_risk(req, chgs) ==
    Ok(assess_performance(
         check_security(assess_version_jump(risk_locals_init, req), req),
         chgs))

----------------------------------------------------------------------------
(* Inputs *)

\* The inverse of split: the parts with a "." between them.
RECURSIVE Join(_)
Join(parts) ==
    IF Len(parts) = 1 THEN parts[1]
    ELSE parts[1] \o <<".">> \o Join(Tail(parts))

\* The strings of 1 to n dot-separated parts drawn from pool.
VersionStrings(pool, n) ==
    {Join(p) : p \in UNION {[1..k -> pool] : k \in 1..n}}

MaxParts == 4

MaxChanges == 7

\* Parts for is_valid_version: empty, numeric, hyphenated, a character that
\* is not alphanumeric, and alphanumeric characters outside ASCII.
ValidationPool ==
    {<<>>, <<"0">>, <<"1">>, <<"1", "0">>, <<"r", "c", "-", "1">>,
     <<"i", "n", "v", "a", "l", "i", "d">>, <<"1", "_">>,
     <<"U+00E9">>, <<"U+0663">>}

\* First parts for is_major_version_jump: around 0, leading zeros, the
\* ends of u32, no number at all, signs, a digit outside ASCII.
MajorPool ==
    {<<"0">>, <<"1">>, <<"2">>, <<"0", "1">>, <<"1", "0">>,
     <<"4", "2", "9", "4", "9", "6", "7", "2", "9", "5">>,
     <<"4", "2", "9", "4", "9", "6", "7", "2", "9", "6">>,
     <<"9", "9", "9", "9", "9", "9", "9", "9", "9", "9", "9">>,
     <<"x">>, <<"1", "a">>, <<"-", "1">>, <<"+", "1">>, <<"U+0663">>, <<>>}

JumpVersions ==
    {Join(<<m>> \o rest) : m \in MajorPool,
                           rest \in {<< <<"0">> >>, << <<"5">>, <<"0">> >>}}

VulnPool == {<<"0">>, <<"1">>, <<"1", "0">>}

LODASH == <<"l", "o", "d", "a", "s", "h">>

VULNERABLE_LIB ==
    <<"v", "u", "l", "n", "e", "r", "a", "b", "l", "e", "-", "l", "i", "b">>

VulnPackages ==
    {<<>>, LODASH, VULNERABLE_LIB,
     <<"n", "o", "t", "-">> \o VULNERABLE, <<"v", "u", "l", "n">>}

TEST_REPO == <<"t", "e", "s", "t", "/", "r", "e", "p", "o">>

Repositories == {<<>>, TEST_REPO}

Ecosystems ==
    {NPM, CARGO, PIP, GO, <<>>, <<"N", "P", "M">>, <<"m", "a", "v", "e", "n">>}

PackageNames == {<<>>, LODASH, VULNERABLE_LIB}

PipelineVersions ==
    {Join(p) : p \in
       {<< <<"1">>, <<"0">>, <<"0">> >>, << <<"2">>, <<"0">>, <<"0">> >>,
        << <<"0">>, <<"0">>, <<"0">> >>, << <<"1">>, <<"5">> >>,
        << <<"i", "n", "v", "a", "l", "i", "d">> >>, << <<>> >>,
        << <<"1">>, <<>>, <<"0">> >>,
        << <<"1">>, <<"0">>, <<"0">>, <<"0">> >>}}

RiskVersions ==
    {Join(p) : p \in
       {<< <<"1">>, <<"0">>, <<"0">> >>, << <<"2">>, <<"0">>, <<"0">> >>,
        << <<"0">>, <<"0">>, <<"0">> >>, << <<"1", "0">>, <<"0">>, <<"0">> >>,
        << <<"x">>, <<"1">> >>}}

UpgradeRequest(repository, ecosystem, package_name, current, target) ==
    [repository |-> repository, ecosystem |-> ecosystem,
     package_name |-> package_name, current_version |-> current,
     target_version |-> target]

Requests ==
    {UpgradeRequest(r, e, p, c, t) :
        r \in Repositories, e \in Ecosystems, p \in PackageNames,
        c \in PipelineVersions, t \in PipelineVersions}

RiskRequests ==
    {UpgradeRequest(TEST_REPO, NPM, p, c, t) :
        p \in {LODASH, VULNERABLE_LIB}, c \in RiskVersions, t \in RiskVersions}

ChangeLists ==
    {[i \in 1..n |-> Change(PACKAGE_JSON, "Modify", <<>>)] : n \in 0..MaxChanges}

----------------------------------------------------------------------------
(* State *)

NoRequest == UpgradeRequest(<<>>, <<>>, <<>>, <<>>, <<>>)

NoResult == [ok |-> FALSE, error |-> UpgradeError(<<>>, "none")]

risk_locals ==
    RiskAssessment(risk_level, breaking_changes, security_issues,
                   performance_impact)

SetRiskLocals(r) ==
    /\ risk_level' = r.risk_level
    /\ breaking_changes' = r.breaking_changes
    /\ security_issues' = r.security_issues
    /\ performance_impact' = r.performance_impact

----------------------------------------------------------------------------
(* process_upgrade, one action per statement *)

\* self.validate_request(&request)?
ValidateRequest ==
    /\ pc = "validate_request"
    /\ LET v == validate_request(request) IN
       IF v.ok
       THEN /\ pc' = "assess_compatibility"
            /\ UNCHANGED result
       ELSE /\ pc' = "returned"
            /\ result' = Err(v.error)
    /\ UNCHANGED <<request, changes, compatibility_score, risk_level,
                   breaking_changes, security_issues, performance_impact,
                   args, ret>>

\* let compatibility_score = self.assess_compatibility(&request)?
AssessCompatibility ==
    /\ pc = "assess_compatibility"
    /\ LET v == assess_compatibility(request) IN
       IF v.ok
       THEN /\ pc' = "generate_changes"
            /\ compatibility_score' = v.value
            /\ UNCHANGED result
       ELSE /\ pc' = "returned"
            /\ result' = Err(v.error)
            /\ UNCHANGED compatibility_score
    /\ UNCHANGED <<request, changes, risk_level, breaking_changes,
                   security_issues, performance_impact, args, ret>>

\* let changes = self.generate_changes(&request)?
GenerateChanges ==
    /\ pc = "generate_changes"
    /\ LET v == generate_changes(request) IN
       IF v.ok
       THEN /\ pc' = "assess_risk"
            /\ changes' = v.value
            /\ UNCHANGED result
       ELSE /\ pc' = "returned"
            /\ result' = Err(v.error)
            /\ UNCHANGED changes
    /\ UNCHANGED <<request, compatibility_score, risk_level, breaking_changes,
                   security_issues, performance_impact, args, ret>>

(* assess_risk(&request, &changes), one action per statement *)

\* the four `let mut` locals
AssessRiskEnter ==
    /\ pc = "assess_risk"
    /\ SetRiskLocals(risk_locals_init)
    /\ pc' = "assess_version_jump"
    /\ UNCHANGED <<request, changes, compatibility_score, result, args, ret>>

AssessVersionJump ==
    /\ pc = "assess_version_jump"
    /\ SetRiskLocals(assess_version_jump(risk_locals, request))
    /\ pc' = "check_security"
    /\ UNCHANGED <<request, changes, compatibility_score, result, args, ret>>

CheckSecurity ==
    /\ pc = "check_security"
    /\ SetRiskLocals(check_security(risk_locals, request))
    /\ pc' = "assess_performance"
    /\ UNCHANGED <<request, changes, compatibility_score, result, args, ret>>

AssessPerformance ==
    /\ pc = "assess_performance"
    /\ SetRiskLocals(assess_performance(risk_locals, changes))
    /\ pc' = "assess_risk_return"
    /\ UNCHANGED <<request, changes, compatibility_score, result, args, ret>>

\* Ok(RiskAssessment { risk_level, breaking_changes, security_issues,
\* performance_impact })
AssessRiskReturn ==
    /\ pc = "assess_risk_return"
    /\ ret' = Ok(risk_locals)
    /\ pc' = "assess_risk_returned"
    /\ UNCHANGED <<request, changes, compatibility_score, risk_level,
                   breaking_changes, security_issues, performance_impact,
                   result, args>>

UpgradeResponse(success, message, chgs, score, risk) ==
    [success |-> success, message |-> message, changes |-> chgs,
     compatibility_score |-> score, risk_assessment |-> risk]

SUCCESS_MESSAGE ==
    <<"U", "p", "g", "r", "a", "d", "e", " ", "p", "r", "o", "c", "e", "s",
      "s", "e", "d", " ", "s", "u", "c", "c", "e", "s", "s", "f", "u", "l",
      "l", "y">>

\* let risk_assessment = self.assess_risk(&request, &changes)?; Ok(UpgradeResponse { .. })
Respond ==
    /\ pc = "assess_risk_returned"
    /\ IF ret.ok
       THEN result' = Ok(UpgradeResponse(TRUE, SUCCESS_MESSAGE, changes,
                                         compatibility_score, ret.value))
       ELSE result' = Err(ret.error)
    /\ pc' = "returned"
    /\ UNCHANGED <<request, changes, compatibility_score, risk_level,
                   breaking_changes, security_issues, performance_impact,
                   args, ret>>

\* One call of process_upgrade on any request.
Init ==
    /\ pc = "validate_request"
    /\ request \in Requests
    /\ changes = <<>>
    /\ compatibility_score = F64Zero
    /\ risk_level = "unset"
    /\ breaking_changes = FALSE
    /\ security_issues = <<>>
    /\ performance_impact = "unset"
    /\ result = NoResult
    /\ args = <<>>
    /\ ret = NoResult

Next ==
    \/ ValidateRequest
    \/ AssessCompatibility
    \/ GenerateChanges
    \/ AssessRiskEnter
    \/ AssessVersionJump
    \/ CheckSecurity
    \/ AssessPerformance
    \/ AssessRiskReturn
    \/ Respond

Spec == Init /\ [][Next]_vars

----------------------------------------------------------------------------
(* assess_risk called on its own, on any request and any change list *)

InitRisk ==
    /\ pc = "assess_risk"
    /\ request \in RiskRequests
    /\ changes \in ChangeLists
    /\ compatibility_score = F64Zero
    /\ risk_level = "unset"
    /\ breaking_changes = FALSE
    /\ security_issues = <<>>
    /\ performance_impact = "unset"
    /\ result = NoResult
    /\ args = <<>>
    /\ ret = NoResult

NextRisk ==
    \/ AssessRiskEnter
    \/ AssessVersionJump
    \/ CheckSecurity
    \/ AssessPerformance
    \/ AssessRiskReturn

SpecRisk == InitRisk /\ [][NextRisk]_vars

----------------------------------------------------------------------------
(* The helpers called on their own *)

HelperIdle ==
    /\ request = NoRequest
    /\ changes = <<>>
    /\ compatibility_score = F64Zero
    /\ risk_level = "unset"
    /\ breaking_changes = FALSE
    /\ security_issues = <<>>
    /\ performance_impact = "unset"
    /\ result = NoResult

HelperUnchanged ==
    UNCHANGED <<request, changes, compatibility_score, risk_level,
                breaking_changes, security_issues, performance_impact,
                result, args>>

\* is_valid_version(version)
CallIsValidVersion ==
    /\ pc = "is_valid_version"
    /\ ret' = Ok(is_valid_version(args[1]))
    /\ pc' = "returned"
    /\ HelperUnchanged

InitVersion ==
    /\ pc = "is_valid_version"
    /\ args \in {<<v>> : v \in VersionStrings(ValidationPool, MaxParts)}
    /\ ret = NoResult
    /\ HelperIdle

SpecVersion == InitVersion /\ [][CallIsValidVersion]_vars

\* is_major_version_jump(current, target)
CallIsMajorVersionJump ==
    /\ pc = "is_major_version_jump"
    /\ ret' = Ok(is_major_version_jump(args[1], args[2]))
    /\ pc' = "returned"
    /\ HelperUnchanged

InitJump ==
    /\ pc = "is_major_version_jump"
    /\ args \in JumpVersions \X JumpVersions
    /\ ret = NoResult
    /\ HelperIdle

SpecJump == InitJump /\ [][CallIsMajorVersionJump]_vars

\* has_known_vulnerabilities(package_name, version)
CallHasKnownVulnerabilities ==
    /\ pc = "has_known_vulnerabilities"
    /\ ret' = Ok(has_known_vulnerabilities(args[1], args[2]))
    /\ pc' = "returned"
    /\ HelperUnchanged

InitVuln ==
    /\ pc = "has_known_vulnerabilities"
    /\ args \in VulnPackages \X VersionStrings(VulnPool, MaxParts)
    /\ ret = NoResult
    /\ HelperIdle

SpecVuln == InitVuln /\ [][CallHasKnownVulnerabilities]_vars

----------------------------------------------------------------------------
(* Properties *)

AsciiAlphanumericOrHyphen(c) == c \in AsciiLetters \cup AsciiDigits \cup {"-"}

\* The validation rule as the specification words it.
AsciiRule(s) ==
    LET parts == split(s) IN
    /\ Len(parts) \in {2, 3}
    /\ \A i \in 1..Len(parts) :
          /\ Len(parts[i]) > 0
          /\ \A j \in 1..Len(parts[i]) : AsciiAlphanumericOrHyphen(parts[i][j])

\* C1: is_valid_version accepts a string if and only if it has 2 or 3
\* dot-separated parts, each non-empty and made only of ASCII alphanumeric
\* characters or "-".
C1_ValidIffAsciiRule ==
    (pc = "returned" /\ Len(args) = 1) => (ret.value = AsciiRule(args[1]))

AllDigits(s) == Len(s) > 0 /\ \A j \in 1..Len(s) : s[j] \in AsciiDigits

\* C9: is_valid_version accepts the strings of three numeric parts and
\* rejects every string of fewer than three parts.
C9_ThreeNumericPartsOnly ==
    (pc = "returned" /\ Len(args) = 1) =>
        LET parts == split(args[1]) IN
        /\ (Len(parts) = 3 /\ \A i \in 1..3 : AllDigits(parts[i])) => ret.value
        /\ (Len(parts) < 3) => ~ ret.value

\* C3: has_known_vulnerabilities is true if and only if the package name
\* contains "vulnerable" or the version equals "0.0.0".
C3_FlaggedIffNameOrSentinel ==
    (pc = "returned" /\ Len(args) = 2) =>
        (ret.value = (contains(args[1], VULNERABLE) \/ args[2] = ZERO_VERSION))

Invalid(v) == ~ is_valid_version(v)

\* C2: process_upgrade fails if and only if one of the four checks fails,
\* always with error_type Validation and the message of the first failing
\* check in the order repository, package_name, current_version,
\* target_version; otherwise it succeeds with the success message.
C2_FirstFailingCheckWins ==
    (pc = "returned") =>
        LET bad1 == request.repository = <<>>
            bad2 == request.package_name = <<>>
            bad3 == Invalid(request.current_version)
            bad4 == Invalid(request.target_version)
        IN  /\ (~ result.ok) <=> (bad1 \/ bad2 \/ bad3 \/ bad4)
            /\ (~ result.ok) => result.error.error_type = "Validation"
            /\ bad1 => result.error.message = REPOSITORY_EMPTY
            /\ (~ bad1 /\ bad2) => result.error.message = PACKAGE_NAME_EMPTY
            /\ (~ bad1 /\ ~ bad2 /\ bad3) =>
                  result.error.message = INVALID_CURRENT \o request.current_version
            /\ (~ bad1 /\ ~ bad2 /\ ~ bad3 /\ bad4) =>
                  result.error.message = INVALID_TARGET \o request.target_version
            /\ result.ok => /\ result.value.success = TRUE
                            /\ result.value.message = SUCCESS_MESSAGE

\* A request with three defects at once was answered with the first one.
C2_Witness ==
    /\ pc = "returned"
    /\ request.repository # <<>>
    /\ request.package_name = <<>>
    /\ Invalid(request.current_version)
    /\ Invalid(request.target_version)
    /\ ~ result.ok
    /\ result.error.message = PACKAGE_NAME_EMPTY

Finding == has_known_vulnerabilities(request.package_name, request.target_version)

MajorJump == is_major_version_jump(request.current_version, request.target_version)

\* C4: when the vulnerability check reports a finding the assessment is
\* Critical with a non-empty security_issues, whatever the version pair;
\* when it reports none, security_issues is empty and the level is not
\* Critical.
C4_FindingIffCritical ==
    (pc = "assess_risk_returned") =>
        /\ Finding => /\ ret.value.risk_level = "Critical"
                      /\ ret.value.security_issues # <<>>
        /\ (~ Finding) => /\ ret.value.security_issues = <<>>
                          /\ ret.value.risk_level # "Critical"

\* A finding on a major jump came out Critical.
C4_Witness ==
    /\ pc = "assess_risk_returned"
    /\ Finding
    /\ MajorJump
    /\ ret.value.risk_level = "Critical"

\* Decimal digit strings compared as the numbers they write, of any size.
RECURSIVE StripZeros(_)
StripZeros(s) ==
    IF Len(s) > 1 /\ Head(s) = "0" THEN StripZeros(Tail(s)) ELSE s

RECURSIVE DigitsLess(_, _)
DigitsLess(a, b) ==
    IF a = <<>> THEN FALSE
    ELSE \/ to_digit(Head(a)) < to_digit(Head(b))
         \/ Head(a) = Head(b) /\ DigitsLess(Tail(a), Tail(b))

DecimalLess(a, b) ==
    LET x == StripZeros(a)
        y == StripZeros(b)
    IN  Len(x) < Len(y) \/ (Len(x) = Len(y) /\ DigitsLess(x, y))

U32_MAX == <<"4", "2", "9", "4", "9", "6", "7", "2", "9", "5">>

\* The major of a version as the claim counts it: its first part when that
\* is an integer, 0 otherwise.
IntegerMajor(v) ==
    LET first == split(v)[1] IN IF AllDigits(first) THEN first ELSE <<"0">>

\* The same, counting a part above u32::MAX as 0 too.
U32Major(v) ==
    LET first == split(v)[1] IN
    IF AllDigits(first) /\ ~ DecimalLess(U32_MAX, first) THEN first ELSE <<"0">>

JumpReturned ==
    /\ pc = "returned"
    /\ Len(args) = 2
    /\ is_valid_version(args[1])
    /\ is_valid_version(args[2])

\* C5 as stated: on valid versions is_major_version_jump is true if and
\* only if the integer value of target's first part is greater than that of
\* current's, a first part that is no integer counting as 0.
C5_JumpIffIntegerMajorGreater ==
    JumpReturned =>
        (ret.value = DecimalLess(IntegerMajor(args[1]), IntegerMajor(args[2])))

\* C5 as amended: the same, where a first part that is no string of ASCII
\* decimal digits, or whose value is above u32::MAX (4294967295), counts as
\* 0; equal majors and downgrades return false.
C5_JumpIffU32MajorGreater ==
    JumpReturned =>
        (ret.value = DecimalLess(U32Major(args[1]), U32Major(args[2])))

\* From 1.x to 4294967296.x: the target's major does not fit in u32.
C5_Witness ==
    /\ JumpReturned
    /\ split(args[1])[1] = <<"1">>
    /\ split(args[2])[1] = <<"4", "2", "9", "4", "9", "6", "7", "2", "9", "6">>
    /\ ret.value = FALSE

\* generate_changes has returned into process_upgrade.
ChangesGenerated ==
    \/ pc \in {"assess_risk", "assess_version_jump", "check_security",
               "assess_performance", "assess_risk_return",
               "assess_risk_returned"}
    \/ pc = "returned" /\ result.ok

\* C6: one Modify of package.json for "npm", one Modify of Cargo.toml for
\* "cargo", nothing for any other ecosystem; the content holds the package
\* name and the target version; never more than one change.
C6_OneManifestChange ==
    ChangesGenerated =>
        /\ request.ecosystem = NPM =>
              /\ Len(changes) = 1
              /\ changes[1].file_path = PACKAGE_JSON
              /\ changes[1].change_type = "Modify"
        /\ request.ecosystem = CARGO =>
              /\ Len(changes) = 1
              /\ changes[1].file_path = CARGO_TOML
              /\ changes[1].change_type = "Modify"
        /\ request.ecosystem \notin {NPM, CARGO} => changes = <<>>
        /\ \A i \in 1..Len(changes) :
              /\ contains(changes[i].content, request.package_name)
              /\ contains(changes[i].content, request.target_version)
        /\ Len(changes) <= 1
        /\ (pc = "returned") => result.value.changes = changes

\* A cargo request got its Cargo.toml change.
C6_Witness ==
    /\ pc = "returned"
    /\ result.ok
    /\ request.ecosystem = CARGO
    /\ Len(result.value.changes) = 1
    /\ result.value.changes[1].file_path = CARGO_TOML

\* C7: performance_impact is Medium if and only if more than 5 changes were
\* passed, None otherwise, never Low or High; and the other three fields
\* are what they are for an empty change list.
C7_MediumIffMoreThanFive ==
    (pc = "assess_risk_returned") =>
        LET none == assess_risk(request, <<>>).value IN
        /\ (ret.value.performance_impact = "Medium") <=> (Len(changes) > 5)
        /\ (Len(changes) <= 5) => ret.value.performance_impact = "None"
        /\ ret.value.performance_impact \notin {"Low", "High"}
        /\ ret.value.risk_level = none.risk_level
        /\ ret.value.breaking_changes = none.breaking_changes
        /\ ret.value.security_issues = none.security_issues

\* Six changes gave Medium.
C7_Witness ==
    /\ pc = "assess_risk_returned"
    /\ Len(changes) = 6
    /\ ret.value.performance_impact = "Medium"

\* The f64 nearest to 0.56, 0.68, 0.72 and 0.76.
F64_0_56 == F64(0 - 1, <<1, 1, 14, 11, 8, 5, 1, 14, 11, 8, 5, 1, 14, 12>>)

F64_0_68 == F64(0 - 1, <<1, 5, 12, 2, 8, 15, 5, 12, 2, 8, 15, 5, 12, 3>>)

F64_0_72 == F64(0 - 1, <<1, 7, 0, 10, 3, 13, 7, 0, 10, 3, 13, 7, 0, 10>>)

F64_0_76 == F64(0 - 1, <<1, 8, 5, 1, 14, 11, 8, 5, 1, 14, 11, 8, 5, 2>>)

\* The f64 just below and just above, for a value that is no power of two.
F64Pred(x) ==
    F64(x.exp, [x.sig EXCEPT ![HexDigits] = @ - 1])

F64Succ(x) ==
    F64(x.exp, [x.sig EXCEPT ![HexDigits] = @ + 1])

KnownEcosystems == {NPM, CARGO, PIP, GO}

\* assess_compatibility has returned into process_upgrade.
ScoreComputed ==
    \/ pc \in {"generate_changes", "assess_risk", "assess_version_jump",
               "check_security", "assess_performance", "assess_risk_return",
               "assess_risk_returned"}
    \/ pc = "returned" /\ result.ok

\* What C8 says of every ecosystem but the unrecognized ones.
ScoreOfKnown ==
    /\ F64Le(F64Zero, compatibility_score)
    /\ F64Le(compatibility_score, F64One)
    /\ request.ecosystem \in KnownEcosystems =>
          /\ F64Le(F64_0_68, compatibility_score)
          /\ F64Le(compatibility_score, F64_0_8)
    /\ request.ecosystem = NPM => compatibility_score = F64_0_8
    /\ request.ecosystem \in KnownEcosystems \ {NPM} =>
          F64Less(compatibility_score, F64_0_8)
    /\ request.ecosystem = PIP => compatibility_score = F64_0_68
    /\ request.ecosystem = GO => compatibility_score = F64_0_76
    /\ request.ecosystem = CARGO => compatibility_score = F64Succ(F64_0_72)
    /\ (pc = "returned") =>
          result.value.compatibility_score = compatibility_score

\* C8 as stated: the score is in [0.0, 1.0], is 0.8 times the ecosystem's
\* factor, known ecosystems score from 0.68 to 0.8 with npm highest, and an
\* unrecognized ecosystem scores 0.56.
C8_UnrecognizedScores056 ==
    ScoreComputed =>
        /\ ScoreOfKnown
        /\ request.ecosystem \notin KnownEcosystems =>
              compatibility_score = F64_0_56

\* C8 as amended: the same, but an unrecognized ecosystem scores the f64
\* product 0.8 * 0.7 = 0.5599999999999999, the f64 just below 0.56.
C8_UnrecognizedScoresJustBelow056 ==
    ScoreComputed =>
        /\ ScoreOfKnown
        /\ request.ecosystem \notin KnownEcosystems =>
              compatibility_score = F64Pred(F64_0_56)

\* An unrecognized ecosystem was scored.
C8_Witness ==
    /\ pc = "returned"
    /\ result.ok
    /\ request.ecosystem = <<"m", "a", "v", "e", "n">>
    /\ F64Less(result.value.compatibility_score, F64_0_56)

Rank(level) ==
    CASE level = "Low" -> 0
      [] level = "Medium" -> 1
      [] level = "High" -> 2
      [] level = "Critical" -> 3

\* C10: assess_risk applies version-delta, then security, then volume; the
\* level starts at Low and no step lowers it; the version-delta step sets
\* High and breaking_changes exactly on a major jump, the security step can
\* only move the level to Critical, the volume step leaves it alone; the
\* final level is never Medium and breaking_changes is true exactly on a
\* major jump.
C10_StepsOnlyRaise ==
    [][ /\ (pc = "assess_risk") =>
              /\ pc' = "assess_version_jump"
              /\ risk_level' = "Low"
              /\ breaking_changes' = FALSE
        /\ (pc = "assess_version_jump") =>
              /\ pc' = "check_security"
              /\ Rank(risk_level') >= Rank(risk_level)
              /\ (risk_level' = "High") <=> MajorJump
              /\ MajorJump \/ risk_level' = "Low"
              /\ breaking_changes' = MajorJump
        /\ (pc = "check_security") =>
              /\ pc' = "assess_performance"
              /\ Rank(risk_level') >= Rank(risk_level)
              /\ risk_level' \in {risk_level, "Critical"}
              /\ breaking_changes' = breaking_changes
        /\ (pc = "assess_performance") =>
              /\ pc' = "assess_risk_return"
              /\ risk_level' = risk_level
              /\ breaking_changes' = breaking_changes
        /\ (pc = "assess_risk_return") =>
              /\ ret'.value.risk_level = risk_level
              /\ ret'.value.risk_level # "Medium"
              /\ ret'.value.breaking_changes = MajorJump
      ]_vars

\* A major jump with a finding: High, then raised to Critical.
C10_Witness ==
    /\ pc = "assess_risk_returned"
    /\ MajorJump
    /\ Finding
    /\ ret.value.risk_level = "Critical"
    /\ ret.value.breaking_changes

====
